---- MODULE Spec2Model ----
(***************************************************************************)
(* Token-based authentication and authorization layer of the Express       *)
(* template: credential store, token codec, authentication service and     *)
(* the request gate (requireAuth / requireRole), driven by HTTP requests.   *)
(*                                                                         *)
(* A request is a sequence of atomic store round trips.  Everything a      *)
(* handler does between two awaits on the store runs synchronously and is   *)
(* folded into the action of the store operation that precedes it.          *)
(***************************************************************************)
EXTENDS Integers, FiniteSets, Sequences, TLC

VARIABLES
  store,    \* the users collection: _id -> document, Null when absent
  nextId,   \* next ObjectId the store assigns (ids are never reused)
  now,      \* the clock the token codec reads
  held,     \* tokens the server has issued and clients still hold
  reqs,     \* the requests in flight, one per slot
  nreq      \* number of requests received so far

vars == <<store, nextId, now, held, reqs, nreq>>

---------------------------------------------------------------------------
(* Bounds of the model *)

MaxUsers == 2       \* documents ever created
MaxTime == 1        \* clock ticks
MaxHeld == 1        \* tokens clients keep
MaxSlots == 2       \* requests in flight at once
MaxRequests == 3    \* requests received in one behaviour, one at a time
MaxConcRequests == 3  \* requests received in one behaviour, interleaved

(* Program constants *)

JWT_EXPIRE == 1     \* token lifetime in clock ticks (env.JWT_EXPIRE)

Ids == 1..MaxUsers
Emails == {"a@x.com", "b@x.com"}
Passwords == {"secret1", "secret2"}
USER_ROLES == {"user", "admin", "moderator"}

Null == [nil |-> TRUE]

---------------------------------------------------------------------------
(* Error messages and statuses, as the code spells them *)

NotAuthenticated == "You are not logged in. Please log in to get access."
InvalidToken == "Invalid token"
ExpiredToken == "Token expired"
UserGone == "The user belonging to this token no longer exists."
AccountDeactivated == "Your account has been deactivated. Please contact support."
NoUserOnRequest == "User not authenticated. Use requireAuth middleware first."
Forbidden == "You do not have permission to perform this action."
EmailInUse == "Email already in use"
UserExists == "User with this email already exists"
InvalidCredentials == "Invalid email or password"
IncorrectPassword == "Current password is incorrect"
NotFound == "User not found"
DuplicateKey == "Duplicate field value entered"
IllegalArguments == "Illegal arguments: string, undefined"
ValidationFailed == "Validation failed"
PasswordMismatch == "Passwords do not match"
ServerError == "Server Error"
ResourceNotFound == "Resource not found"

\* config: process.env.NODE_ENV || "development"
NODE_ENV == "development"

---------------------------------------------------------------------------
(* User model (models/user.model.js) *)

\* a password written as submitted, without the pre-save hook
Plain(plain) == [alg |-> "plain", of |-> plain]

\* pre-save hook: the password is stored as a bcrypt hash of the plaintext
HashPassword(plain) == [alg |-> "bcrypt", of |-> plain]

\* bcrypt.compare(candidate, hash)
BcryptCompare(candidate, hash) == hash.alg = "bcrypt" /\ hash.of = candidate

\* user.comparePassword(candidate): "throw" when the document was loaded
\* without its password (select: false), since the hash is then undefined
comparePassword(user, candidate) ==
  IF user.password = Null THEN "throw"
  ELSE IF BcryptCompare(candidate, user.password) THEN "match"
  ELSE "mismatch"

\* variant: the document is serialized as loaded
toJSONRaw(user) == user

\* toJSON transform: the serialized user never carries the password
toJSON(user) ==
  IF user = Null THEN Null
  ELSE [_id |-> user._id, email |-> user.email, role |-> user.role,
        isActive |-> user.isActive]

\* variant: the collection has no unique index
NoUniqueIndex(db, email, exceptId) == FALSE

\* unique index on email
EmailTaken(db, email, exceptId) ==
  \E i \in Ids : i # exceptId /\ db[i] # Null /\ db[i].email = email

\* variant: the role of the request is ignored
NewDocumentDefaultRole(id, data) ==
  [_id |-> id,
   email |-> data.email,
   password |-> HashPassword(data.password),
   role |-> "user",
   isActive |-> TRUE]

\* schema defaults applied by User.create
NewDocument(id, data) ==
  [_id |-> id,
   email |-> data.email,
   password |-> HashPassword(data.password),
   role |-> IF "role" \in DOMAIN data THEN data.role ELSE "user",
   isActive |-> TRUE]

---------------------------------------------------------------------------
(* User repository *)

\* the password field has select: false, so a plain query omits it
WithoutPassword(doc) == [doc EXCEPT !.password = Null]

findById(db, id) ==
  IF id \in Ids /\ db[id] # Null THEN WithoutPassword(db[id]) ELSE Null

\* findOne({ email }).select("+password"): the first match, password included
Matches(db, email) == {i \in Ids : db[i] # Null /\ db[i].email = email}

\* variant: the query does not select the password
findByEmailPlain(db, email) ==
  IF Matches(db, email) = {} THEN Null
  ELSE WithoutPassword(
         db[CHOOSE i \in Matches(db, email) : \A j \in Matches(db, email) : i <= j])

findByEmail(db, email) ==
  IF Matches(db, email) = {} THEN Null
  ELSE db[CHOOSE i \in Matches(db, email) : \A j \in Matches(db, email) : i <= j]

\* findByIdAndUpdate(id, updateData): the fields present in updateData are set
ApplyUpdate(doc, updateData) ==
  [f \in DOMAIN doc |-> IF f \in DOMAIN updateData THEN updateData[f] ELSE doc[f]]

---------------------------------------------------------------------------
(* Token codec *)

generateToken(payload, clock) ==
  [id |-> payload.id, email |-> payload.email, role |-> payload.role,
   iat |-> clock, exp |-> clock + JWT_EXPIRE, sig |-> "server"]

\* variant: a token is refused from the tick of its issuance on
verifyTokenEarly(token, clock) ==
  IF token.sig # "server" THEN [ok |-> FALSE, message |-> InvalidToken]
  ELSE IF clock + JWT_EXPIRE >= token.exp
  THEN [ok |-> FALSE, message |-> ExpiredToken]
  ELSE [ok |-> TRUE, message |-> ""]

\* variant: every failure is reported as an invalid token
verifyTokenOneError(token, clock) ==
  IF token.sig # "server" \/ clock >= token.exp
  THEN [ok |-> FALSE, message |-> InvalidToken]
  ELSE [ok |-> TRUE, message |-> ""]

\* jwt.verify: signature first, then expiry
verifyToken(token, clock) ==
  IF token.sig # "server" THEN [ok |-> FALSE, message |-> InvalidToken]
  ELSE IF clock >= token.exp THEN [ok |-> FALSE, message |-> ExpiredToken]
  ELSE [ok |-> TRUE, message |-> ""]

\* variant: the payload is given out only for a token this server signed
decodeTokenVerified(token) ==
  IF token.sig # "server" THEN Null
  ELSE [id |-> token.id, email |-> token.email, role |-> token.role,
        iat |-> token.iat, exp |-> token.exp]

\* jwt.decode: the payload as it stands in the token; neither the
\* signature nor the expiry is looked at
decodeToken(token) ==
  [id |-> token.id, email |-> token.email, role |-> token.role,
   iat |-> token.iat, exp |-> token.exp]

\* variant: the token is issued with the default role
TokenForDefaultRole(user, clock) ==
  generateToken([id |-> user._id, email |-> user.email, role |-> "user"], clock)

\* the service's generateToken call: id, email and role of the user
TokenFor(user, clock) ==
  generateToken([id |-> user._id, email |-> user.email, role |-> user.role], clock)

---------------------------------------------------------------------------
(* Responses *)

NoRes == [status |-> 0, message |-> "", user |-> Null, token |-> Null]

Fail(status, message) ==
  [status |-> status, message |-> message, user |-> Null, token |-> Null]

Success(status, user, token) ==
  [status |-> status, message |-> "", user |-> toJSON(user), token |-> token]

---------------------------------------------------------------------------
(* Request gate *)

\* variant: the credential of any scheme is taken as the token
ExtractTokenAnyScheme(hdr) ==
  IF hdr # Null THEN hdr.cred ELSE Null

\* requireAuth step 1: the token is the second word of a Bearer header
ExtractToken(hdr) ==
  IF hdr # Null /\ hdr.scheme = "Bearer" THEN hdr.cred ELSE Null

\* requireAuth steps 1-2, up to the store lookup
requireAuthVerify(hdr, clock) ==
  IF ExtractToken(hdr) = Null THEN Fail(401, NotAuthenticated)
  ELSE IF ~verifyToken(ExtractToken(hdr), clock).ok
       THEN Fail(401, verifyToken(ExtractToken(hdr), clock).message)
  ELSE NoRes

\* variant: a missing user is reported as the service reports it
requireAuthResolveNotFound(user) ==
  IF user = Null THEN Fail(404, NotFound)
  ELSE IF ~user.isActive THEN Fail(401, AccountDeactivated)
  ELSE NoRes

\* variant: a missing user is reported like a missing token
requireAuthResolveGeneric(user) ==
  IF user = Null THEN Fail(401, NotAuthenticated)
  ELSE IF ~user.isActive THEN Fail(401, AccountDeactivated)
  ELSE NoRes

\* requireAuth steps 3-5, on the document the lookup returned
requireAuthResolve(user) ==
  IF user = Null THEN Fail(401, UserGone)
  ELSE IF ~user.isActive THEN Fail(401, AccountDeactivated)
  ELSE NoRes

\* variant: the role of the token's claims is attached
AttachedClaims(decoded, user) ==
  IF user = Null THEN Null ELSE [user EXCEPT !.role = decoded.role]

\* requireAuth step 5: req.user = user
AttachedUser(decoded, user) == user

\* variant: the role list is not consulted
requireRoleAuthenticated(roles, user) ==
  IF user = Null THEN Fail(500, NoUserOnRequest) ELSE NoRes

\* variant: a request without a user is answered like an unauthenticated one
requireRoleUnauthorized(roles, user) ==
  IF user = Null THEN Fail(401, NotAuthenticated)
  ELSE IF user.role \notin roles THEN Fail(403, Forbidden)
  ELSE NoRes

requireRole(roles, user) ==
  IF user = Null THEN Fail(500, NoUserOnRequest)
  ELSE IF user.role \notin roles THEN Fail(403, Forbidden)
  ELSE NoRes

---------------------------------------------------------------------------
(* Authentication service *)

\* variant: the existence check is left out
registerCheckNone(db, userData) == NoRes

\* register / createUser: reject an email that is already present
registerCheck(db, userData) ==
  IF findByEmail(db, userData.email) # Null THEN Fail(400, EmailInUse) ELSE NoRes

createUserCheck(db, userData) ==
  IF findByEmail(db, userData.email) # Null THEN Fail(400, UserExists) ELSE NoRes

\* variant: a wrong password gets a message of its own
loginWrongPassword(db, email, password, clock) ==
  LET user == findByEmail(db, email)
  IN IF user = Null
     THEN [res |-> Fail(401, InvalidCredentials), compared |-> FALSE]
     ELSE IF ~user.isActive
     THEN [res |-> Fail(401, AccountDeactivated), compared |-> FALSE]
     ELSE IF comparePassword(user, password) = "throw"
     THEN [res |-> Fail(500, IllegalArguments), compared |-> TRUE]
     ELSE IF comparePassword(user, password) = "mismatch"
     THEN [res |-> Fail(401, IncorrectPassword), compared |-> TRUE]
     ELSE [res |-> Success(200, user, TokenFor(user, clock)), compared |-> TRUE]

\* variant: the password is compared before the active flag is looked at
loginPasswordFirst(db, email, password, clock) ==
  LET user == findByEmail(db, email)
  IN IF user = Null
     THEN [res |-> Fail(401, InvalidCredentials), compared |-> FALSE]
     ELSE IF comparePassword(user, password) = "throw"
     THEN [res |-> Fail(500, IllegalArguments), compared |-> TRUE]
     ELSE IF comparePassword(user, password) = "mismatch"
     THEN [res |-> Fail(401, InvalidCredentials), compared |-> TRUE]
     ELSE IF ~user.isActive
     THEN [res |-> Fail(401, AccountDeactivated), compared |-> TRUE]
     ELSE [res |-> Success(200, user, TokenFor(user, clock)), compared |-> TRUE]

\* login: the response, and whether comparePassword was called
login(db, email, password, clock) ==
  LET user == findByEmail(db, email)
  IN IF user = Null
     THEN [res |-> Fail(401, InvalidCredentials), compared |-> FALSE]
     ELSE IF ~user.isActive
     THEN [res |-> Fail(401, AccountDeactivated), compared |-> FALSE]
     ELSE IF comparePassword(user, password) = "throw"
     THEN [res |-> Fail(500, IllegalArguments), compared |-> TRUE]
     ELSE IF comparePassword(user, password) = "mismatch"
     THEN [res |-> Fail(401, InvalidCredentials), compared |-> TRUE]
     ELSE [res |-> Success(200, user, TokenFor(user, clock)), compared |-> TRUE]

---------------------------------------------------------------------------
(* Routes *)

PublicRoutes == {"register", "login"}
AuthRoutes == {"me", "updatePassword", "logout"}
UserRoutes == {"listUsers", "createUser", "getUser", "updateUser", "deleteUser"}
Routes == PublicRoutes \cup AuthRoutes \cup UserRoutes

RoleGated == {"listUsers", "createUser", "deleteUser"}

RouteRoles(route) ==
  IF route = "listUsers" THEN {"admin", "moderator"} ELSE {"admin"}

\* variant: no route mounts requireRole
AfterAuthOpen(route, user) == NoRes

\* variant: writing a user takes the role admin
AfterAuthAdminWrites(route, user) ==
  IF route \in RoleGated THEN requireRole(RouteRoles(route), user)
  ELSE IF route = "updateUser" THEN requireRole({"admin"}, user)
  ELSE NoRes

\* the middleware chain after requireAuth has attached the user
AfterAuth(route, user) ==
  IF route \in RoleGated THEN requireRole(RouteRoles(route), user) ELSE NoRes

---------------------------------------------------------------------------
(* Requests *)

Idle ==
  [pc |-> "idle", route |-> "", hdr |-> Null, id |-> 0, body |-> Null,
   user |-> Null, compared |-> FALSE, res |-> NoRes]

\* bodies the validators accept
RegisterBodies ==
  [email : Emails, password : Passwords]
  \cup [email : Emails, password : Passwords, role : USER_ROLES]

LoginBodies == [email : Emails, password : Passwords]

\* bodies with the three required strings; confirmPassword may differ from
\* newPassword
UpdatePasswordBodies ==
  [currentPassword : Passwords, newPassword : Passwords,
   confirmPassword : Passwords]

UpdateUserBodies ==
  [email : Emails] \cup [role : USER_ROLES] \cup [isActive : BOOLEAN]

Bodies(route) ==
  CASE route \in {"register", "createUser"} -> RegisterBodies
    [] route = "login" -> LoginBodies
    [] route = "updatePassword" -> UpdatePasswordBodies
    [] route = "updateUser" -> UpdateUserBodies
    [] OTHER -> {Null}

Params(route) ==
  IF route \in {"getUser", "updateUser", "deleteUser"} THEN Ids ELSE {0}

\* a token not signed with the server secret, claiming to be an admin
Forged(clock) ==
  [id |-> 1, email |-> "a@x.com", role |-> "admin",
   iat |-> clock, exp |-> clock + JWT_EXPIRE, sig |-> "other"]

Headers(route, clock) ==
  IF route \in PublicRoutes THEN {Null}
  ELSE {Null, [scheme |-> "Bearer", cred |-> Null],
        [scheme |-> "Bearer", cred |-> Forged(clock)]}
       \cup {[scheme |-> s, cred |-> t] : s \in {"Bearer", "Basic"}, t \in held}

\* what clients may hold after a token is issued: they keep it or not, and
\* drop older ones to make room
Keep(tokens, token) ==
  {tokens} \cup {h \cup {token} : h \in {k \in SUBSET tokens : Cardinality(k \cup {token}) <= MaxHeld}}

Slots == 1..MaxSlots

Respond(s, res) == reqs' = [reqs EXCEPT ![s].pc = "done", ![s].res = res]

---------------------------------------------------------------------------
Init ==
  /\ store = [i \in Ids |-> Null]
  /\ nextId = 1
  /\ now = 0
  /\ held = {}
  /\ nreq = 0
  /\ reqs = [s \in Slots |-> Idle]

(* A request arrives.  A public route runs its validator and calls the      *)
(* service; a protected route runs requireAuth up to its store lookup.      *)
(* Params and body are bound where the chain first reads them, in validate  *)
(* or in the controller.                                                    *)
Receive(s, routes, budget) ==
  /\ reqs[s].pc \in {"idle", "done"}
  /\ nreq < budget
  /\ \E route \in routes :
       /\ route \in {"register", "createUser"} => nextId <= MaxUsers
       /\ \E hdr \in Headers(route, now) :
            LET r == [Idle EXCEPT !.route = route, !.hdr = hdr]
                v == requireAuthVerify(hdr, now)
            IN IF route \in PublicRoutes
               THEN \E body \in Bodies(route) :
                      reqs' = [reqs EXCEPT ![s] =
                                 [r EXCEPT !.pc = "service", !.body = body]]
               ELSE reqs' = [reqs EXCEPT ![s] =
                      IF v # NoRes THEN [r EXCEPT !.pc = "done", !.res = v]
                      ELSE [r EXCEPT !.pc = "auth"]]
  /\ nreq' = nreq + 1
  /\ UNCHANGED <<store, nextId, now, held>>

\* variant: no body is refused
validateNone(route, body) == NoRes

\* validate({ body: updatePasswordSchema }) on PUT /auth/update-password:
\* confirmPassword must equal newPassword.  The bodies drawn for the other
\* routes are ones their schemas accept.
validate(route, body) ==
  IF route = "updatePassword" /\ body.confirmPassword # body.newPassword
  THEN Fail(400, PasswordMismatch)
  ELSE NoRes

(* requireAuth's lookup returns; the rest of the chain up to the            *)
(* controller's first store call runs in the same turn.                     *)
RequireAuth(s) ==
  /\ reqs[s].pc = "auth"
  /\ LET decoded == ExtractToken(reqs[s].hdr)
         found == findById(store, decoded.id)
         a == requireAuthResolve(found)
         user == AttachedUser(decoded, found)
         g == AfterAuth(reqs[s].route, user)
     IN IF a # NoRes THEN Respond(s, a)
        ELSE IF g # NoRes
        THEN reqs' = [reqs EXCEPT ![s].pc = "done", ![s].res = g, ![s].user = user]
        ELSE IF reqs[s].route = "logout"
        THEN reqs' = [reqs EXCEPT ![s].pc = "done", ![s].user = user,
                                  ![s].res = Success(200, Null, Null)]
        ELSE \E id \in Params(reqs[s].route), body \in Bodies(reqs[s].route) :
               IF validate(reqs[s].route, body) # NoRes
               THEN reqs' = [reqs EXCEPT ![s].pc = "done", ![s].user = user,
                                         ![s].id = id, ![s].body = body,
                                         ![s].res = validate(reqs[s].route, body)]
               ELSE reqs' = [reqs EXCEPT ![s].pc = "service", ![s].user = user,
                                         ![s].id = id, ![s].body = body]
  /\ UNCHANGED <<store, nextId, now, held, nreq>>

(* AuthService.register / UserService.createUser: the existence check *)
CheckEmail(s) ==
  /\ reqs[s].pc = "service"
  /\ reqs[s].route \in {"register", "createUser"}
  /\ LET check == IF reqs[s].route = "register"
                  THEN registerCheck(store, reqs[s].body)
                  ELSE createUserCheck(store, reqs[s].body)
     IN IF check # NoRes THEN Respond(s, check)
        ELSE reqs' = [reqs EXCEPT ![s].pc = "write"]
  /\ UNCHANGED <<store, nextId, now, held, nreq>>

(* AuthService.login *)
Login(s) ==
  /\ reqs[s].pc = "service"
  /\ reqs[s].route = "login"
  /\ LET out == login(store, reqs[s].body.email, reqs[s].body.password, now)
     IN /\ reqs' = [reqs EXCEPT ![s].pc = "done", ![s].res = out.res,
                                ![s].compared = out.compared]
        /\ IF out.res.token = Null THEN held' = held
           ELSE held' \in Keep(held, out.res.token)
  /\ UNCHANGED <<store, nextId, now, nreq>>

\* variant: a missing record is reported as the gate reports it
getMeGone(db, userId) ==
  IF findById(db, userId) = Null THEN Fail(401, UserGone)
  ELSE Success(200, findById(db, userId), Null)

\* AuthService.getMe and the controller's response
getMe(db, userId) ==
  IF findById(db, userId) = Null THEN Fail(404, NotFound)
  ELSE Success(200, findById(db, userId), Null)

(* AuthService.getMe *)
GetMe(s) ==
  /\ reqs[s].pc = "service"
  /\ reqs[s].route = "me"
  /\ Respond(s, getMe(store, reqs[s].user._id))
  /\ UNCHANGED <<store, nextId, now, held, nreq>>

\* what bcrypt.compare rejects with when the hash is undefined: a plain
\* Error, with no statusCode and no code (0 stands for the absent number)
BcryptError ==
  [name |-> "Error", code |-> 0, statusCode |-> 0,
   message |-> IllegalArguments, errors |-> ""]

\* errorHandler: the status and the body it sends for the error handed to
\* next; stack tells whether the body carries err.stack
errorHandler(err, nodeEnv) ==
  LET copied == [statusCode |-> err.statusCode, message |-> err.message]
      cast == IF err.name = "CastError"
              THEN [statusCode |-> 404, message |-> ResourceNotFound]
              ELSE copied
      dup == IF err.code = 11000
             THEN [statusCode |-> 400, message |-> DuplicateKey]
             ELSE cast
      error == IF err.name = "ValidationError"
               THEN [statusCode |-> 400, message |-> err.errors]
               ELSE dup
  IN [status |-> IF error.statusCode = 0 THEN 500 ELSE error.statusCode,
      message |-> IF error.message = "" THEN ServerError ELSE error.message,
      stack |-> nodeEnv = "development"]

(* AuthService.updatePassword up to user.save(): the lookup and the check   *)
(* of the current password                                                  *)
UpdatePassword(s) ==
  /\ reqs[s].pc = "service"
  /\ reqs[s].route = "updatePassword"
  /\ LET user == findById(store, reqs[s].user._id)
     IN IF user = Null THEN Respond(s, Fail(404, NotFound))
        ELSE IF comparePassword(user, reqs[s].body.currentPassword) = "throw"
        THEN reqs' = [reqs EXCEPT ![s].pc = "done", ![s].compared = TRUE,
                                  ![s].res =
                                    Fail(errorHandler(BcryptError, NODE_ENV).status,
                                         errorHandler(BcryptError, NODE_ENV).message)]
        ELSE IF comparePassword(user, reqs[s].body.currentPassword) = "mismatch"
        THEN reqs' = [reqs EXCEPT ![s].pc = "done", ![s].compared = TRUE,
                                  ![s].res = Fail(401, IncorrectPassword)]
        ELSE reqs' = [reqs EXCEPT ![s].pc = "write", ![s].compared = TRUE]
  /\ UNCHANGED <<store, nextId, now, held, nreq>>

(* The write a service issues after its lookup: User.create for register    *)
(* and createUser, user.save() for updatePassword.  register and            *)
(* updatePassword then issue a token.                                       *)
Write(s) ==
  /\ reqs[s].pc = "write"
  /\ reqs[s].route # "updatePassword" => nextId <= MaxUsers
  /\ IF reqs[s].route = "updatePassword" THEN
       LET id == reqs[s].user._id
           doc == IF store[id] = Null
                  THEN [reqs[s].user EXCEPT
                          !.password = HashPassword(reqs[s].body.newPassword)]
                  ELSE [store[id] EXCEPT
                          !.password = HashPassword(reqs[s].body.newPassword)]
           token == TokenFor(doc, now)
       IN /\ store' = [store EXCEPT ![id] = doc]
          /\ nextId' = nextId
          /\ Respond(s, Success(200, doc, token))
          /\ held' \in Keep(held, token)
     ELSE IF EmailTaken(store, reqs[s].body.email, 0) THEN
       /\ Respond(s, Fail(400, DuplicateKey))
       /\ UNCHANGED <<store, nextId, held>>
     ELSE
       LET doc == NewDocument(nextId, reqs[s].body)
           token == TokenFor(doc, now)
       IN /\ store' = [store EXCEPT ![nextId] = doc]
          /\ nextId' = nextId + 1
          /\ IF reqs[s].route = "register"
             THEN /\ Respond(s, Success(201, doc, token))
                  /\ held' \in Keep(held, token)
             ELSE /\ Respond(s, Success(201, doc, Null))
                  /\ held' = held
  /\ UNCHANGED <<now, nreq>>

(* UserService.getAllUsers: the page of users, then the count *)
GetAllUsers(s) ==
  /\ reqs[s].pc = "service"
  /\ reqs[s].route = "listUsers"
  /\ reqs' = [reqs EXCEPT ![s].pc = "count"]
  /\ UNCHANGED <<store, nextId, now, held, nreq>>

CountUsers(s) ==
  /\ reqs[s].pc = "count"
  /\ Respond(s, Success(200, Null, Null))
  /\ UNCHANGED <<store, nextId, now, held, nreq>>

(* UserService.getUserById *)
GetUserById(s) ==
  /\ reqs[s].pc = "service"
  /\ reqs[s].route = "getUser"
  /\ LET user == findById(store, reqs[s].id)
     IN IF user = Null THEN Respond(s, Fail(404, NotFound))
        ELSE Respond(s, Success(200, user, Null))
  /\ UNCHANGED <<store, nextId, now, held, nreq>>

\* variant: the password is left in the update
StripNothing(updateData) == updateData

\* updateUser drops a non-empty password from the update
StripPassword(updateData) ==
  IF updateData # Null /\ "password" \in DOMAIN updateData
     /\ updateData.password # ""
  THEN [f \in DOMAIN updateData \ {"password"} |-> updateData[f]]
  ELSE updateData

\* UserService.updateUser on UserRepository.update: the response and the
\* collection afterwards.  findByIdAndUpdate runs the schema validators on
\* the fields it sets, which refuse an empty password, and writes the
\* fields as given, without the pre-save hook.
updateUser(db, id, updateData) ==
  LET data == StripPassword(updateData)
      written == IF data # Null /\ "password" \in DOMAIN data
                 THEN [data EXCEPT !.password = Plain(@)]
                 ELSE data
  IN IF data # Null /\ "password" \in DOMAIN data /\ data.password = ""
     THEN [res |-> Fail(400, ValidationFailed), db |-> db]
     ELSE IF db[id] = Null
     THEN [res |-> Fail(404, NotFound), db |-> db]
     ELSE IF data # Null /\ "email" \in DOMAIN data
             /\ EmailTaken(db, data.email, id)
     THEN [res |-> Fail(400, DuplicateKey), db |-> db]
     ELSE LET doc == IF data = Null THEN db[id] ELSE ApplyUpdate(db[id], written)
          IN [res |-> Success(200, WithoutPassword(doc), Null),
              db |-> [db EXCEPT ![id] = doc]]

(* UserService.updateUser *)
UpdateUser(s) ==
  /\ reqs[s].pc = "service"
  /\ reqs[s].route = "updateUser"
  /\ LET out == updateUser(store, reqs[s].id, reqs[s].body)
     IN /\ store' = out.db
        /\ Respond(s, out.res)
  /\ UNCHANGED <<nextId, now, held, nreq>>

\* variant: the record is deactivated and kept
deleteUserSoft(db, id) ==
  IF db[id] = Null THEN [res |-> Fail(404, NotFound), db |-> db]
  ELSE [res |-> Success(200, Null, Null),
        db |-> [db EXCEPT ![id].isActive = FALSE]]

\* UserService.deleteUser over userRepository.delete (findByIdAndDelete),
\* and the controller's response
deleteUser(db, id) ==
  IF db[id] = Null THEN [res |-> Fail(404, NotFound), db |-> db]
  ELSE [res |-> Success(200, Null, Null), db |-> [db EXCEPT ![id] = Null]]

(* UserService.deleteUser *)
DeleteUser(s) ==
  /\ reqs[s].pc = "service"
  /\ reqs[s].route = "deleteUser"
  /\ LET out == deleteUser(store, reqs[s].id)
     IN /\ store' = out.db
        /\ Respond(s, out.res)
  /\ UNCHANGED <<nextId, now, held, nreq>>

(* Time passes.  The clock is read only to stamp and to verify tokens, so it  *)
(* is advanced only while a client holds one.                               *)
Tick ==
  /\ now < MaxTime
  /\ held # {}
  /\ now' = now + 1
  /\ UNCHANGED <<store, nextId, held, reqs, nreq>>

\* one request at a time, over every route
Next ==
  \/ \E s \in {1} :
       \/ Receive(s, Routes, MaxRequests)
       \/ RequireAuth(s)
       \/ CheckEmail(s)
       \/ Login(s)
       \/ GetMe(s)
       \/ UpdatePassword(s)
       \/ Write(s)
       \/ GetAllUsers(s)
       \/ CountUsers(s)
       \/ GetUserById(s)
       \/ UpdateUser(s)
       \/ DeleteUser(s)
  \/ Tick

Spec == Init /\ [][Next]_vars

\* requests interleaved at their store round trips, over the routes that
\* write to the store
ConcRoutes == {"register", "createUser", "updateUser", "deleteUser", "me"}

NextConc ==
  \E s \in Slots :
    \/ Receive(s, ConcRoutes, MaxConcRequests)
    \/ RequireAuth(s)
    \/ CheckEmail(s)
    \/ Write(s)
    \/ UpdateUser(s)
    \/ DeleteUser(s)
    \/ GetMe(s)

SpecConc == Init /\ [][NextConc]_vars

---------------------------------------------------------------------------
(* The middlewares mounted on their own: optionalAuth in front of the       *)
(* handler of the documented GET /public route, and requireRole on a route  *)
(* that does not run requireAuth first.                                     *)

\* variant: the expiry of the token is not looked at
optionalAuthVerifySigned(hdr, clock) ==
  ExtractToken(hdr) # Null /\ ExtractToken(hdr).sig = "server"

\* optionalAuth steps 1-2: whether the store lookup is reached
optionalAuthVerify(hdr, clock) ==
  ExtractToken(hdr) # Null /\ verifyToken(ExtractToken(hdr), clock).ok

\* variant: the active flag is not looked at
optionalAuthResolveAny(user, failed) ==
  IF ~failed /\ user # Null THEN user ELSE Null

\* optionalAuth step 3: the user attached after the lookup; a lookup that
\* throws is caught and attaches none
optionalAuthResolve(user, failed) ==
  IF ~failed /\ user # Null /\ user.isActive THEN user ELSE Null

\* the handler behind optionalAuth answers 200, with the user when one is
\* attached
publicHandler(user) == Success(200, user, Null)

\* GET /public arrives: optionalAuth up to its store lookup
OptionalReceive(s) ==
  /\ reqs[s].pc \in {"idle", "done"}
  /\ nreq < MaxRequests
  /\ \E hdr \in Headers("public", now) :
       LET r == [Idle EXCEPT !.route = "public", !.hdr = hdr]
       IN reqs' = [reqs EXCEPT ![s] =
                     IF optionalAuthVerify(hdr, now)
                     THEN [r EXCEPT !.pc = "optional"]
                     ELSE [r EXCEPT !.pc = "done", !.res = publicHandler(Null)]]
  /\ nreq' = nreq + 1
  /\ UNCHANGED <<store, nextId, now, held>>

\* optionalAuth's lookup returns or throws; the handler runs
OptionalAuth(s) ==
  /\ reqs[s].pc = "optional"
  /\ \E failed \in BOOLEAN :
       LET found == findById(store, ExtractToken(reqs[s].hdr).id)
           user == optionalAuthResolve(found, failed)
       IN reqs' = [reqs EXCEPT ![s].pc = "done", ![s].user = user,
                               ![s].res = publicHandler(user)]
  /\ UNCHANGED <<store, nextId, now, held, nreq>>

\* a request arrives on a route that mounts requireRole(...roles) without
\* requireAuth; the handler behind it answers 200
RequireRoleOnly(s) ==
  /\ reqs[s].pc \in {"idle", "done"}
  /\ nreq < MaxRequests
  /\ \E hdr \in Headers("roleOnly", now), roles \in SUBSET USER_ROLES :
       LET r == [Idle EXCEPT !.route = "roleOnly", !.hdr = hdr,
                             !.body = [roles |-> roles]]
           g == requireRole(roles, r.user)
       IN reqs' = [reqs EXCEPT ![s] =
                     IF g # NoRes THEN [r EXCEPT !.pc = "done", !.res = g]
                     ELSE [r EXCEPT !.pc = "done",
                                    !.res = Success(200, Null, Null)]]
  /\ nreq' = nreq + 1
  /\ UNCHANGED <<store, nextId, now, held>>

\* the routes that bring the store into the states the middlewares meet
MwRoutes == {"register", "updateUser", "deleteUser"}

NextMw ==
  \/ \E s \in {1} :
       \/ Receive(s, MwRoutes, MaxRequests)
       \/ RequireAuth(s)
       \/ CheckEmail(s)
       \/ Write(s)
       \/ UpdateUser(s)
       \/ DeleteUser(s)
       \/ OptionalReceive(s)
       \/ OptionalAuth(s)
       \/ RequireRoleOnly(s)
  \/ Tick

SpecMw == Init /\ [][NextMw]_vars

---------------------------------------------------------------------------
(* Properties *)

\* the request in slot s was received in this step
Arrived(s) == nreq' = nreq + 1 /\ reqs'[s] # reqs[s]

\* requireAuth's store lookup for slot s returned in this step
Looked(s) == reqs[s].pc = "auth" /\ reqs'[s].pc # "auth"

\* a service call of slot s is running or about to run
InHandler(r) == r.pc \in {"service", "write", "count"}

\* the credential of an Authorization header of the Bearer scheme
Bearer(hdr) == IF hdr # Null /\ hdr.scheme = "Bearer" THEN hdr.cred ELSE Null

SameRecord(u, d) ==
  /\ u._id = d._id /\ u.email = d.email
  /\ u.role = d.role /\ u.isActive = d.isActive

\* C1: requireAuth attaches a user and lets the request continue only when
\* the request carries a Bearer token signed with the server secret and
\* unexpired when verified, the token's id resolves to a document at the
\* time of the lookup and that document is active; the attached user is that
\* document.  On every failing path the response is the failure, no user is
\* attached and no handler runs.
C1_RequireAuthAdmits ==
  [][\A s \in Slots :
       /\ (Arrived(s) /\ reqs'[s].pc = "auth") =>
            LET t == Bearer(reqs'[s].hdr)
            IN t # Null /\ t.sig = "server" /\ now < t.exp
       /\ (reqs'[s].user # Null /\ reqs'[s].user # reqs[s].user) =>
            /\ Looked(s)
            /\ Bearer(reqs[s].hdr) # Null
            /\ LET d == store[Bearer(reqs[s].hdr).id]
               IN d # Null /\ d.isActive /\ SameRecord(reqs'[s].user, d)
       /\ (Looked(s) /\ reqs'[s].user = Null) =>
            reqs'[s].pc = "done" /\ reqs'[s].res.status = 401
       /\ (Arrived(s) /\ reqs'[s].route \notin PublicRoutes
             /\ reqs'[s].pc # "auth") =>
            /\ reqs'[s].pc = "done" /\ reqs'[s].res.status = 401
            /\ reqs'[s].user = Null
       /\ (reqs'[s].route \notin PublicRoutes /\ InHandler(reqs'[s])) =>
            reqs'[s].user # Null
  ]_vars

\* a request admitted by requireAuth, with the user of its token attached
C1_Witness ==
  \E s \in Slots :
    /\ reqs[s].pc = "service" /\ reqs[s].user # Null
    /\ Bearer(reqs[s].hdr) # Null
    /\ Bearer(reqs[s].hdr).id = reqs[s].user._id

\* C2: requireAuth checks token-present, token-verifies, user-exists,
\* user-active in that order and the first failing check alone fixes the
\* error, always 401: NotAuthenticated, the codec's message (Invalid token /
\* Token expired), UserGone, AccountDeactivated.  A deleted document stays
\* deleted, so an unexpired token of a deleted user fails with UserGone.
C2_GateErrors ==
  [][\A s \in Slots :
       /\ (Arrived(s) /\ reqs'[s].route \notin PublicRoutes) =>
            LET t == Bearer(reqs'[s].hdr)
            IN IF t = Null
               THEN reqs'[s].pc = "done"
                    /\ reqs'[s].res = Fail(401, NotAuthenticated)
               ELSE IF t.sig # "server"
               THEN reqs'[s].pc = "done"
                    /\ reqs'[s].res = Fail(401, InvalidToken)
               ELSE IF now >= t.exp
               THEN reqs'[s].pc = "done"
                    /\ reqs'[s].res = Fail(401, ExpiredToken)
               ELSE reqs'[s].pc = "auth"
       /\ Looked(s) =>
            LET d == store[Bearer(reqs[s].hdr).id]
            IN IF d = Null
               THEN reqs'[s].pc = "done" /\ reqs'[s].res = Fail(401, UserGone)
               ELSE IF ~d.isActive
               THEN reqs'[s].pc = "done"
                    /\ reqs'[s].res = Fail(401, AccountDeactivated)
               ELSE reqs'[s].user # Null
       /\ \A i \in Ids : (i < nextId /\ store[i] = Null) => store'[i] = Null
  ]_vars

\* an unexpired server-signed token of a deleted user was answered UserGone
C2_Witness ==
  \E s \in Slots :
    /\ reqs[s].res = Fail(401, UserGone)
    /\ LET t == Bearer(reqs[s].hdr)
       IN /\ t.sig = "server" /\ now < t.exp
          /\ t.id < nextId /\ store[t.id] = Null

\* C3: on a request to which requireAuth attached a user, requireRole(S)
\* continues exactly when the user's role is in S and otherwise fails with
\* Forbidden (403), for every set S; the role-gated routes decide so with
\* their sets: admin for creating and deleting, admin or moderator for
\* listing.
C3_RequireRole ==
  [][\A s \in Slots : (Looked(s) /\ reqs'[s].user # Null) =>
       LET u == reqs'[s].user
           route == reqs'[s].route
           allowed == IF route = "listUsers" THEN {"admin", "moderator"}
                      ELSE {"admin"}
       IN /\ \A S \in SUBSET USER_ROLES :
               IF u.role \in S THEN requireRole(S, u) = NoRes
               ELSE requireRole(S, u) = Fail(403, Forbidden)
          /\ route \in {"listUsers", "createUser", "deleteUser"} =>
               IF u.role \in allowed THEN reqs'[s].pc = "service"
               ELSE reqs'[s].pc = "done" /\ reqs'[s].res = Fail(403, Forbidden)
  ]_vars

\* requireRole('admin') rejected a user of role user with 403
C3_Witness ==
  \E s \in Slots :
    /\ reqs[s].route \in {"createUser", "deleteUser"}
    /\ reqs[s].user # Null /\ reqs[s].user.role = "user"
    /\ reqs[s].pc = "done" /\ reqs[s].res = Fail(403, Forbidden)

\* C4: the gate decides on the stored role and active flag at the time of
\* its lookup, whatever role the token carries: a deactivated user is
\* rejected 401, and a role-gated route admits exactly the stored roles in
\* its set and rejects the others 403.
C4_CurrentStoreState ==
  [][\A s \in Slots : Looked(s) =>
       LET d == store[Bearer(reqs[s].hdr).id]
           route == reqs[s].route
           allowed == IF route = "listUsers" THEN {"admin", "moderator"}
                      ELSE {"admin"}
       IN d # Null =>
            /\ ~d.isActive =>
                 reqs'[s].pc = "done" /\ reqs'[s].res.status = 401
            /\ d.isActive =>
                 /\ reqs'[s].user.role = d.role
                 /\ reqs'[s].user.isActive = d.isActive
                 /\ route \in {"listUsers", "createUser", "deleteUser"} =>
                      IF d.role \in allowed THEN reqs'[s].pc = "service"
                      ELSE reqs'[s].res = Fail(403, Forbidden)
  ]_vars

\* a token issued with role admin was rejected 403 on an admin route
C4_Witness ==
  \E s \in Slots :
    /\ reqs[s].route \in {"createUser", "deleteUser"}
    /\ reqs[s].res = Fail(403, Forbidden)
    /\ Bearer(reqs[s].hdr).sig = "server"
    /\ Bearer(reqs[s].hdr).role = "admin"

\* the document registered under an email, if any
Registered(e) == \E i \in Ids : store[i] # Null /\ store[i].email = e

ActiveAccount(e) ==
  \E i \in Ids : store[i] # Null /\ store[i].email = e /\ store[i].isActive

RightPassword(e, p) ==
  \E i \in Ids : /\ store[i] # Null /\ store[i].email = e
                  /\ BcryptCompare(p, store[i].password)

\* the login call of slot s returned in this step
LoggedIn(s) ==
  reqs[s].pc = "service" /\ reqs[s].route = "login" /\ reqs'[s].pc = "done"

\* C5 as stated: in every store state, login with a registered email and a
\* wrong password gives the same error kind and status as login with an
\* unregistered email.
C5_Original ==
  \A e \in Emails, u \in Emails, p \in Passwords, q \in Passwords :
    (Registered(e) /\ ~RightPassword(e, p) /\ ~Registered(u)) =>
      /\ login(store, e, p, now).res.status = login(store, u, q, now).res.status
      /\ login(store, e, p, now).res.message = login(store, u, q, now).res.message

\* C5 amended: in every store state, login with the email of a registered,
\* active account and a wrong password gives the same error kind and status
\* as login with an unregistered email and any password.
C5_Indistinguishable ==
  \A e \in Emails, u \in Emails, p \in Passwords, q \in Passwords :
    (ActiveAccount(e) /\ ~RightPassword(e, p) /\ ~Registered(u)) =>
      /\ login(store, e, p, now).res.status = login(store, u, q, now).res.status
      /\ login(store, e, p, now).res.message = login(store, u, q, now).res.message

\* a login with the email of an active account and a wrong password was
\* answered, while another email is unregistered
C5_Witness ==
  \E s \in Slots :
    /\ reqs[s].route = "login" /\ reqs[s].pc = "done"
    /\ ActiveAccount(reqs[s].body.email)
    /\ ~RightPassword(reqs[s].body.email, reqs[s].body.password)
    /\ reqs[s].res.status = 401
    /\ \E u \in Emails : ~Registered(u)

\* C6: login returns a user and a token exactly when a document with the
\* email exists, is active and the password matches its stored hash; in
\* every other case it fails with 401 and issues no token; it never changes
\* the store.
C6_LoginIff ==
  [][\A s \in Slots : LoggedIn(s) =>
       LET e == reqs[s].body.email
           p == reqs[s].body.password
       IN /\ store' = store /\ nextId' = nextId
          /\ IF ActiveAccount(e) /\ RightPassword(e, p)
             THEN /\ reqs'[s].res.status = 200
                  /\ reqs'[s].res.user # Null /\ reqs'[s].res.user.email = e
                  /\ reqs'[s].res.token # Null
                  /\ reqs'[s].res.token.sig = "server"
             ELSE /\ reqs'[s].res.status = 401
                  /\ reqs'[s].res.user = Null /\ reqs'[s].res.token = Null
                  /\ held' = held
  ]_vars

\* a login that returned a user and a token
C6_Witness ==
  \E s \in Slots :
    /\ reqs[s].route = "login" /\ reqs[s].pc = "done"
    /\ reqs[s].res.status = 200 /\ reqs[s].res.token # Null

\* C7: login looks at the active flag before the password: for a registered,
\* deactivated account it fails with AccountDeactivated (401) whatever the
\* password, and comparePassword is not called.
C7_ActiveBeforePassword ==
  [][\A s \in Slots :
       (LoggedIn(s) /\ Registered(reqs[s].body.email)
         /\ ~ActiveAccount(reqs[s].body.email)) =>
         /\ reqs'[s].res = Fail(401, AccountDeactivated)
         /\ ~reqs'[s].compared
  ]_vars

\* a login with the right password of a deactivated account was refused
C7_Witness ==
  \E s \in Slots :
    /\ reqs[s].route = "login" /\ reqs[s].pc = "done"
    /\ Registered(reqs[s].body.email) /\ ~ActiveAccount(reqs[s].body.email)
    /\ RightPassword(reqs[s].body.email, reqs[s].body.password)
    /\ reqs[s].res = Fail(401, AccountDeactivated)

\* C8: register with an email that belongs to a document fails with
\* EmailInUse (400), issues no token and leaves the documents unchanged.
C8_RegisterDuplicate ==
  [][\A s \in Slots :
       (/\ reqs[s].pc = "service" /\ reqs[s].route = "register"
        /\ reqs'[s] # reqs[s] /\ Registered(reqs[s].body.email)) =>
         /\ reqs'[s].pc = "done"
         /\ reqs'[s].res = Fail(400, EmailInUse)
         /\ store' = store /\ nextId' = nextId /\ held' = held
  ]_vars

\* a registration of a taken email was refused with EmailInUse
C8_Witness ==
  \E s \in Slots :
    /\ reqs[s].route = "register" /\ reqs[s].pc = "done"
    /\ Registered(reqs[s].body.email)
    /\ reqs[s].res = Fail(400, EmailInUse)

\* C9: in every reachable state, under every interleaving of register,
\* createUser and updateUser, no two documents have the same email.
C9_UniqueEmail ==
  \A i \in Ids, j \in Ids :
    (i # j /\ store[i] # Null /\ store[j] # Null) =>
      store[i].email # store[j].email

\* two registrations of one email both passed the existence check; one
\* created the document and the other was refused by the store
C9_Witness ==
  \E s \in Slots, t \in Slots :
    /\ s # t
    /\ reqs[s].route = "register" /\ reqs[t].route = "register"
    /\ reqs[s].pc = "done" /\ reqs[t].pc = "done"
    /\ reqs[s].body.email = reqs[t].body.email
    /\ reqs[s].res.status = 201
    /\ reqs[t].res = Fail(400, DuplicateKey)

\* C10 as stated: updatePassword of an existing user with the right current
\* password succeeds and writes the new hash, after which login accepts the
\* new password and refuses the old one.
C10_UpdatePassword ==
  [][\A s \in Slots :
       /\ (/\ reqs[s].pc = "service" /\ reqs[s].route = "updatePassword"
           /\ reqs'[s] # reqs[s]
           /\ store[reqs[s].user._id] # Null
           /\ BcryptCompare(reqs[s].body.currentPassword,
                            store[reqs[s].user._id].password)) =>
            reqs'[s].pc = "write"
       /\ (/\ reqs[s].pc = "write" /\ reqs[s].route = "updatePassword"
           /\ reqs'[s] # reqs[s]) =>
            LET doc == store'[reqs[s].user._id]
                old == reqs[s].body.currentPassword
                new == reqs[s].body.newPassword
            IN /\ reqs'[s].res.status = 200
               /\ doc.password = HashPassword(new)
               /\ login(store', doc.email, new, now).res.status = 200
               /\ old # new => login(store', doc.email, old, now).res.status = 401
  ]_vars

\* C11 as stated: updatePassword with a currentPassword that does not match
\* the stored hash fails with IncorrectPassword (401), issues no token and
\* leaves the record unchanged.
C11_WrongCurrentPassword ==
  [][\A s \in Slots :
       (/\ reqs[s].pc = "service" /\ reqs[s].route = "updatePassword"
        /\ reqs'[s] # reqs[s]
        /\ store[reqs[s].user._id] # Null
        /\ ~BcryptCompare(reqs[s].body.currentPassword,
                          store[reqs[s].user._id].password)) =>
         /\ reqs'[s].pc = "done"
         /\ reqs'[s].res = Fail(401, IncorrectPassword)
         /\ store' = store /\ held' = held
  ]_vars

\* tokens the server has issued: those clients hold and those in responses
Issued ==
  held \cup {reqs[s].res.token : s \in {x \in Slots : reqs[x].res.token # Null}}

\* the token has not expired and its user exists and is active
Live(t) ==
  now < t.exp /\ t.id \in Ids /\ store[t.id] # Null /\ store[t.id].isActive

\* requireAuth, run now on a request carrying t, attaches the user
GateAdmits(t) ==
  /\ requireAuthVerify([scheme |-> "Bearer", cred |-> t], now) = NoRes
  /\ requireAuthResolve(findById(store, t.id)) = NoRes

NoRevocation == \A t \in Issued : Live(t) => GateAdmits(t)

\* C12: there is no revocation.  In every state every issued token that has
\* not expired and whose user exists and is active is admitted by
\* requireAuth, whatever calls were answered since it was issued; a request
\* that carries such a token passes verification when it arrives and gets
\* its user attached at the lookup; logout answers 200 once past the gate
\* and no step of a logout request changes the store or the tokens held.
C12_NoRevocation ==
  [][/\ NoRevocation /\ NoRevocation'
     /\ \A s \in Slots :
          /\ (/\ Arrived(s) /\ reqs'[s].route \notin PublicRoutes
              /\ Bearer(reqs'[s].hdr) \in Issued
              /\ now < Bearer(reqs'[s].hdr).exp) =>
               reqs'[s].pc = "auth"
          /\ (Looked(s) /\ Live(Bearer(reqs[s].hdr))) =>
               /\ reqs'[s].user # Null
               /\ reqs'[s].res.status # 401
          /\ (Looked(s) /\ reqs[s].route = "logout" /\ reqs'[s].user # Null) =>
               /\ reqs'[s].pc = "done"
               /\ reqs'[s].res = Success(200, Null, Null)
          /\ (reqs'[s].route = "logout" /\ reqs'[s] # reqs[s]) =>
               /\ store' = store /\ nextId' = nextId /\ held' = held
  ]_vars

\* logout was answered 200 for a token that is still held, unexpired and of
\* an active user, so that the gate still admits it
C12_Witness ==
  \E s \in Slots :
    /\ reqs[s].route = "logout" /\ reqs[s].pc = "done"
    /\ reqs[s].res.status = 200
    /\ Bearer(reqs[s].hdr) \in held
    /\ Live(Bearer(reqs[s].hdr))
    /\ GateAdmits(Bearer(reqs[s].hdr))

\* tokens a client can present: issued ones and ones signed with another key
Presentable == Issued \cup {Forged(c) : c \in 0..MaxTime}

\* C13: verifyToken accepts a token exactly when it is signed with the server
\* secret and its expiry has not passed; a server-signed token whose expiry
\* has passed fails as 'Token expired', never as 'Invalid token'; a token not
\* signed with the server secret fails as 'Invalid token', expired or not.
\* A token generated with lifetime JWT_EXPIRE expires JWT_EXPIRE after its
\* issuance.
C13_VerifyToken ==
  \A t \in Presentable :
    LET v == verifyToken(t, now)
    IN /\ (t.sig = "server" /\ now < t.exp) => v.ok
       /\ (t.sig = "server" /\ now >= t.exp) =>
            ~v.ok /\ v.message = ExpiredToken /\ v.message # InvalidToken
       /\ t.sig # "server" => ~v.ok /\ v.message = InvalidToken
       /\ t.sig = "server" =>
            /\ t.exp = t.iat + JWT_EXPIRE
            /\ t = generateToken([id |-> t.id, email |-> t.email,
                                  role |-> t.role], t.iat)
            /\ verifyToken(t, t.iat).ok
            /\ ~verifyToken(t, t.iat + JWT_EXPIRE + 1).ok
            /\ verifyToken(t, t.iat + JWT_EXPIRE + 1).message = ExpiredToken

\* a client holds a server-signed token whose expiry has passed
C13_Witness ==
  \E t \in held :
    /\ t.sig = "server" /\ now >= t.exp
    /\ verifyToken(t, now).message = ExpiredToken

\* C14: optionalAuth never rejects: every request on a route behind it
\* reaches the handler and is answered 200, with no header, with a token
\* that does not verify, with the token of a deleted or deactivated user and
\* when the lookup throws; in each of those cases no user is attached.  A
\* user is attached only from a verified token of an existing active user.
C14_OptionalAuth ==
  [][\A s \in Slots :
       /\ (Arrived(s) /\ reqs'[s].route = "public") =>
            LET t == Bearer(reqs'[s].hdr)
            IN IF t = Null \/ ~verifyToken(t, now).ok
               THEN /\ reqs'[s].pc = "done" /\ reqs'[s].user = Null
                    /\ reqs'[s].res = Success(200, Null, Null)
               ELSE reqs'[s].pc = "optional"
       /\ (reqs[s].pc = "optional" /\ reqs'[s] # reqs[s]) =>
            LET d == store[Bearer(reqs[s].hdr).id]
            IN /\ reqs'[s].pc = "done" /\ reqs'[s].res.status = 200
               /\ reqs'[s].res.user = toJSON(reqs'[s].user)
               /\ (d = Null \/ ~d.isActive) => reqs'[s].user = Null
               /\ reqs'[s].user # Null => SameRecord(reqs'[s].user, d)
               /\ \A i \in Ids :
                    optionalAuthResolve(findById(store, i), TRUE) = Null
       /\ reqs'[s].route = "public" => reqs'[s].res.status \in {0, 200}
  ]_vars

\* a request with the unexpired token of a deactivated user was answered 200
\* by the handler with no user attached
C14_Witness ==
  \E s \in Slots :
    /\ reqs[s].route = "public" /\ reqs[s].pc = "done"
    /\ reqs[s].res.status = 200 /\ reqs[s].user = Null
    /\ LET t == Bearer(reqs[s].hdr)
       IN /\ t # Null /\ t.sig = "server" /\ now < t.exp
          /\ store[t.id] # Null /\ ~store[t.id].isActive

\* C15: requireRole on a request with no user attached fails with status
\* 500, never 401 or 403, for every set of allowed roles, and the handler
\* does not run.
C15_RequireRoleNoUser ==
  [][\A s \in Slots :
       (Arrived(s) /\ reqs'[s].route = "roleOnly") =>
         /\ reqs'[s].user = Null
         /\ reqs'[s].pc = "done"
         /\ reqs'[s].res = Fail(500, NoUserOnRequest)
         /\ reqs'[s].res.status \notin {200, 401, 403}
         /\ \A S \in SUBSET USER_ROLES :
              requireRole(S, Null).status = 500
  ]_vars

\* requireRole with every role allowed answered 500 to a request that
\* carried a valid token but had no user attached
C15_Witness ==
  \E s \in Slots :
    /\ reqs[s].route = "roleOnly" /\ reqs[s].pc = "done"
    /\ reqs[s].body.roles = USER_ROLES
    /\ Bearer(reqs[s].hdr) \in held /\ Live(Bearer(reqs[s].hdr))
    /\ reqs[s].res.status = 500

C17_RegisterRole ==
  [][\A s \in Slots :
       (/\ reqs[s].route = "register" /\ reqs'[s] # reqs[s]
        /\ reqs'[s].res.status = 201) =>
         LET body == reqs[s].body
             d == store'[nextId]
             t == reqs'[s].res.token
             u == AttachedUser(t, findById(store', t.id))
         IN /\ reqs[s].pc = "write" /\ reqs[s].hdr = Null
            /\ store[nextId] = Null /\ d # Null
            /\ nextId' = nextId + 1
            /\ \A i \in Ids \ {nextId} : store'[i] = store[i]
            /\ d.isActive /\ d.email = body.email
            /\ d.role = IF "role" \in DOMAIN body THEN body.role ELSE "user"
            /\ t # Null /\ t.id = nextId /\ t.role = d.role
            /\ d.role = "admin" =>
                 /\ requireAuthVerify([scheme |-> "Bearer", cred |-> t], now)
                      = NoRes
                 /\ requireAuthResolve(findById(store', t.id)) = NoRes
                 /\ requireRole({"admin"}, u) = NoRes
  ]_vars

\* the second request of a behaviour is past requireRole('admin') with the
\* token of a user who registered with role admin in the first
C17_Witness ==
  \E s \in Slots :
    /\ nreq = 2
    /\ reqs[s].route \in {"createUser", "deleteUser"}
    /\ reqs[s].pc = "service"
    /\ reqs[s].user # Null /\ reqs[s].user.role = "admin"
    /\ Bearer(reqs[s].hdr).role = "admin"
    /\ Bearer(reqs[s].hdr).id = reqs[s].user._id

UpdatePayloads ==
  LET pw == Passwords \cup {""}
  IN UpdateUserBodies
     \cup [password : pw]
     \cup [role : USER_ROLES, password : pw]
     \cup [email : Emails, password : pw]

\* C19: the generic update path never changes a stored password: whenever
\* updateUser is called, whatever the store holds, for the id it is called
\* with and every update payload, with or without a password field, the
\* empty string included, the record's stored password after updateUser is
\* the one stored before it, and a record that is absent stays absent.
C19_UpdateKeepsPassword ==
  \A s \in Slots :
    (reqs[s].pc = "service" /\ reqs[s].route = "updateUser") =>
      \A u \in UpdatePayloads \cup {reqs[s].body} :
        LET id == reqs[s].id
            out == updateUser(store, id, u)
        IN IF store[id] = Null THEN out.db[id] = Null
           ELSE /\ out.db[id] # Null
                /\ out.db[id].password = store[id].password

\* updateUser changed the role of a record and left its password hash, and
\* would leave it for a payload that carries a password
C19_Witness ==
  \E s \in Slots :
    /\ reqs[s].route = "updateUser" /\ reqs[s].pc = "done"
    /\ reqs[s].res.status = 200
    /\ "role" \in DOMAIN reqs[s].body
    /\ store[reqs[s].id] # Null
    /\ store[reqs[s].id].role = reqs[s].body.role
    /\ store[reqs[s].id].role # "user"
    /\ \E p \in Passwords : store[reqs[s].id].password = HashPassword(p)
    /\ updateUser(store, reqs[s].id, [password |-> "secret2"]).res.status = 200
    /\ updateUser(store, reqs[s].id, [password |-> ""]).res.status = 400

\* the gate admitted the request in slot s: a user resolved from its
\* server-signed Bearer token is attached, with a role the route allows
Admitted(r) ==
  /\ r.user # Null
  /\ Bearer(r.hdr) # Null /\ Bearer(r.hdr).sig = "server"
  /\ Bearer(r.hdr).id = r.user._id
  /\ r.route \in {"createUser", "deleteUser"} => r.user.role = "admin"
  /\ r.route = "listUsers" => r.user.role \in {"admin", "moderator"}

C21_AnyCallerUpdates ==
  [][\A s \in Slots :
       /\ (/\ Looked(s) /\ reqs'[s].user # Null
           /\ reqs[s].route \in {"getUser", "updateUser"}) =>
            reqs'[s].pc = "service"
       /\ (/\ reqs[s].pc = "service" /\ reqs[s].route = "getUser"
           /\ reqs'[s] # reqs[s] /\ store[reqs[s].id] # Null) =>
            reqs'[s].res = Success(200, store[reqs[s].id], Null)
       /\ (/\ reqs[s].pc = "service" /\ reqs[s].route = "updateUser"
           /\ reqs'[s] # reqs[s] /\ store[reqs[s].id] # Null
           /\ ~("email" \in DOMAIN reqs[s].body
                /\ EmailTaken(store, reqs[s].body.email, reqs[s].id))) =>
            /\ reqs'[s].res.status = 200
            /\ \A f \in DOMAIN reqs[s].body :
                 store'[reqs[s].id][f] = reqs[s].body[f]
            /\ reqs'[s].res.user = toJSON(store'[reqs[s].id])
  ]_vars

\* a caller whose role is user deactivated another user
C21_Witness ==
  \E s \in Slots :
    /\ reqs[s].route = "updateUser" /\ reqs[s].pc = "done"
    /\ reqs[s].res.status = 200
    /\ reqs[s].user.role = "user"
    /\ reqs[s].id # reqs[s].user._id
    /\ reqs[s].body = [isActive |-> FALSE]
    /\ store[reqs[s].id] # Null /\ ~store[reqs[s].id].isActive
    /\ store[reqs[s].user._id] # Null
    /\ store[reqs[s].user._id].role = "user"

\* C22 as stated: updatePassword with the right current password returns a
\* token, and that token is fresh: it differs from every token issued
\* before, the one presented on the request included.
C22_FreshToken ==
  [][\A s \in Slots :
       /\ (/\ reqs[s].pc = "service" /\ reqs[s].route = "updatePassword"
           /\ reqs'[s] # reqs[s]
           /\ store[reqs[s].user._id] # Null
           /\ BcryptCompare(reqs[s].body.currentPassword,
                            store[reqs[s].user._id].password)) =>
            /\ reqs'[s].pc = "write"
            /\ TokenFor(store[reqs[s].user._id], now) \notin Issued
       /\ (/\ reqs[s].pc = "write" /\ reqs[s].route = "updatePassword"
           /\ reqs'[s] # reqs[s]) =>
            /\ reqs'[s].res.token # Null
            /\ reqs'[s].res.token \notin Issued
            /\ reqs'[s].res.token # Bearer(reqs[s].hdr)
  ]_vars

\* C23: getMe(id) answers with the record the store holds for id at the
\* time of its lookup, whatever the gate attached, and fails with NotFound
\* (404) when id no longer resolves to a record; either way it changes no
\* state.
C23_GetMe ==
  [][\A s \in Slots :
       (/\ reqs[s].pc = "service" /\ reqs[s].route = "me"
        /\ reqs'[s] # reqs[s]) =>
         /\ store' = store /\ nextId' = nextId /\ held' = held
         /\ reqs'[s].pc = "done"
         /\ IF store[reqs[s].user._id] # Null
            THEN reqs'[s].res = Success(200, store[reqs[s].user._id], Null)
            ELSE reqs'[s].res = Fail(404, NotFound)
  ]_vars

\* getMe returned the record as changed after the gate attached the user
C23_Witness ==
  \E s \in Slots :
    /\ reqs[s].route = "me" /\ reqs[s].pc = "done"
    /\ reqs[s].res.status = 200
    /\ reqs[s].res.user.role # reqs[s].user.role
    /\ reqs[s].res.user = toJSON(store[reqs[s].user._id])

\* the claims a token is issued for now: those of the records in the store
ClaimsPayloads ==
  {[id |-> i, email |-> store[i].email, role |-> store[i].role] :
     i \in {x \in Ids : store[x] # Null}}

C25_GenericServerError ==
  /\ errorHandler(BcryptError, NODE_ENV).status = 500
  /\ \A s \in Slots :
       (/\ reqs[s].pc = "done" /\ reqs[s].route = "updatePassword"
        /\ reqs[s].compared
        /\ reqs[s].res.status = 500) =>
         /\ reqs[s].res.message = ServerError
         /\ reqs[s].res.message # BcryptError.message

\* C26: optionalAuth attaches a user exactly when requireAuth, run on the
\* same request in the same store state, admits it, and the user it attaches
\* is the record requireAuth attaches: both reach the store lookup for the
\* same headers, and both accept the same looked-up documents.  A lookup
\* that throws attaches none.
C26_SameIdentity ==
  [][\A s \in Slots :
       /\ (Arrived(s) /\ reqs'[s].route = "public") =>
            /\ reqs'[s].pc = "optional" <=>
                 requireAuthVerify(reqs'[s].hdr, now) = NoRes
            /\ reqs'[s].pc = "done" <=>
                 requireAuthVerify(reqs'[s].hdr, now).status = 401
            /\ reqs'[s].pc = "done" => reqs'[s].user = Null
       /\ (reqs[s].pc = "optional" /\ reqs'[s] # reqs[s]) =>
            LET found == findById(store, ExtractToken(reqs[s].hdr).id)
                admits == requireAuthResolve(found) = NoRes
            IN /\ optionalAuthResolve(found, FALSE) # Null <=> admits
               /\ admits => optionalAuthResolve(found, FALSE) =
                              AttachedUser(ExtractToken(reqs[s].hdr), found)
               /\ reqs'[s].user \in {optionalAuthResolve(found, FALSE), Null}
               /\ reqs'[s].user # Null => admits
  ]_vars

\* optionalAuth attached to a request the record requireAuth admits it with
C26_Witness ==
  \E s \in Slots :
    /\ reqs[s].route = "public" /\ reqs[s].pc = "done"
    /\ reqs[s].user # Null
    /\ ExtractToken(reqs[s].hdr).sig = "server"
    /\ LET found == findById(store, ExtractToken(reqs[s].hdr).id)
       IN /\ requireAuthResolve(found) = NoRes
          /\ reqs[s].user = AttachedUser(ExtractToken(reqs[s].hdr), found)

\* C27: the gate looks the caller up once per request.  Once requireAuth has
\* attached the user, no later step of the request changes it or answers
\* 401 or 403, and the handler acts on the store as it is, whatever has
\* become of the caller's record since: DELETE /users/:id removes the target
\* even when the caller was deleted, deactivated or demoted in between.
C27_SingleLookup ==
  [][\A s \in Slots :
       /\ (InHandler(reqs[s]) /\ ~Arrived(s)) =>
            /\ reqs'[s].user = reqs[s].user
            /\ reqs'[s].res.status \notin {401, 403}
       /\ (/\ reqs[s].pc = "service" /\ reqs[s].route = "deleteUser"
           /\ reqs'[s] # reqs[s]) =>
            /\ reqs[s].user.role = "admin"
            /\ reqs'[s].pc = "done"
            /\ IF store[reqs[s].id] # Null
               THEN /\ reqs'[s].res.status = 200
                    /\ store' = [store EXCEPT ![reqs[s].id] = Null]
               ELSE /\ reqs'[s].res = Fail(404, NotFound)
                    /\ store' = store
  ]_vars

\* a caller admitted as admin to DELETE /users/:id on its own id was demoted
\* by a concurrent update before the handler ran, and the record was removed
C27_Witness ==
  \E s, t \in Slots :
    /\ s # t
    /\ reqs[s].route = "deleteUser" /\ reqs[s].pc = "done"
    /\ reqs[s].res.status = 200
    /\ reqs[s].user.role = "admin"
    /\ reqs[s].id = reqs[s].user._id
    /\ reqs[t].route = "updateUser" /\ reqs[t].pc = "done"
    /\ reqs[t].res.status = 200
    /\ reqs[t].id = reqs[s].id
    /\ reqs[t].res.user.role = "user"
    /\ store[reqs[s].id] = Null

\* C28: on PUT /auth/update-password the gate runs before the validation of
\* the body and the validation before the service.  A request the gate does
\* not admit is answered 401 before any body is read, so whether or not
\* newPassword and confirmPassword match; an admitted request whose
\* confirmPassword differs from newPassword is answered 400
\* (PasswordMismatch), the service is not called and the store is unchanged.
C28_GateThenValidation ==
  [][\A s \in Slots :
       /\ (Arrived(s) /\ reqs'[s].route = "updatePassword") =>
            /\ reqs'[s].body = Null
            /\ IF requireAuthVerify(reqs'[s].hdr, now) # NoRes
               THEN reqs'[s].pc = "done" /\ reqs'[s].res.status = 401
               ELSE reqs'[s].pc = "auth"
       /\ (Looked(s) /\ reqs[s].route = "updatePassword") =>
            LET found == findById(store, Bearer(reqs[s].hdr).id)
            IN /\ store' = store
               /\ IF requireAuthResolve(found) # NoRes
                  THEN /\ reqs'[s].pc = "done" /\ reqs'[s].res.status = 401
                       /\ reqs'[s].body = Null
                       /\ \A b \in UpdatePasswordBodies :
                            validate("updatePassword", b).status # 401
                  ELSE /\ reqs'[s].body \in UpdatePasswordBodies
                       /\ IF reqs'[s].body.confirmPassword # reqs'[s].body.newPassword
                          THEN /\ reqs'[s].pc = "done"
                               /\ reqs'[s].res = Fail(400, PasswordMismatch)
                               /\ ~reqs'[s].compared
                          ELSE reqs'[s].pc = "service"
       /\ (reqs[s].route = "updatePassword" /\ reqs[s].pc \in {"service", "write"}) =>
            reqs[s].body.confirmPassword = reqs[s].body.newPassword
  ]_vars

\* an admitted request whose confirmPassword differs from newPassword was
\* answered 400 and the caller's stored password is the one registered
C28_Witness ==
  \E s \in Slots :
    /\ reqs[s].route = "updatePassword" /\ reqs[s].pc = "done"
    /\ reqs[s].res = Fail(400, PasswordMismatch)
    /\ reqs[s].user # Null
    /\ reqs[s].body.confirmPassword # reqs[s].body.newPassword
    /\ reqs[s].body.newPassword # reqs[s].body.currentPassword
    /\ store[reqs[s].user._id] # Null
    /\ BcryptCompare(reqs[s].body.currentPassword,
                     store[reqs[s].user._id].password)

\* C29: on GET /auth/me a user whose record is absent at the gate's lookup
\* is answered 401 UserGone, never 404.  A 404 NotFound answer is given only
\* by getMe's own lookup, to a request the gate admitted with the record
\* present and whose record was deleted before getMe looked it up.
C29_GoneOrNotFound ==
  [][\A s \in Slots :
       /\ (/\ Looked(s) /\ reqs[s].route = "me"
           /\ store[Bearer(reqs[s].hdr).id] = Null) =>
            /\ reqs'[s].pc = "done"
            /\ reqs'[s].res = Fail(401, UserGone)
            /\ reqs'[s].user = Null
       /\ (/\ reqs'[s].route = "me" /\ reqs'[s].res.status = 404
           /\ reqs'[s] # reqs[s]) =>
            /\ reqs[s].pc = "service" /\ reqs[s].route = "me"
            /\ reqs[s].user # Null
            /\ reqs[s].user._id = Bearer(reqs[s].hdr).id
            /\ store[reqs[s].user._id] = Null
            /\ reqs'[s].res = Fail(404, NotFound)
       /\ (reqs[s].route = "me" /\ reqs[s].res.status = 404) =>
            reqs[s].user # Null /\ store[reqs[s].user._id] = Null
  ]_vars

\* GET /auth/me was answered 404 after another request deleted the caller
\* between the gate's lookup and getMe's
C29_Witness ==
  \E s, t \in Slots :
    /\ s # t
    /\ reqs[s].route = "me" /\ reqs[s].pc = "done"
    /\ reqs[s].res = Fail(404, NotFound)
    /\ reqs[s].user # Null
    /\ reqs[t].route = "deleteUser" /\ reqs[t].pc = "done"
    /\ reqs[t].res.status = 200
    /\ reqs[t].id = reqs[s].user._id

----------------------------------------------------------------------------
(* Calls of next: what each middleware hands to next, in order, in one      *)
(* invocation.  NoRes stands for next() and a failure for next(error); a    *)
(* `return next(...)` ends the sequence.                                    *)

\* the error a rejected store lookup carries
LookupFailed == "lookup failed"

\* variant: the missing-token branch does not return, so verifyToken runs on
\* an undefined token, throws, and the catch hands a second error on
requireAuthCallsNoReturn(hdr, clock, found, rejected) ==
  LET token == ExtractToken(hdr)
  IN IF token = Null
     THEN <<Fail(401, NotAuthenticated), Fail(401, InvalidToken)>>
     ELSE IF ~verifyToken(token, clock).ok
     THEN <<Fail(401, verifyToken(token, clock).message)>>
     ELSE IF rejected THEN <<Fail(500, LookupFailed)>>
     ELSE IF found = Null THEN <<Fail(401, UserGone)>>
     ELSE IF ~found.isActive THEN <<Fail(401, AccountDeactivated)>>
     ELSE <<NoRes>>

\* requireAuth under catchAsync: found is what the lookup returns, rejected
\* tells that it rejects instead, which catchAsync's .catch(next) hands on
requireAuthCalls(hdr, clock, found, rejected) ==
  LET token == ExtractToken(hdr)
  IN IF token = Null THEN <<Fail(401, NotAuthenticated)>>
     ELSE IF ~verifyToken(token, clock).ok
     THEN <<Fail(401, verifyToken(token, clock).message)>>
     ELSE IF rejected THEN <<Fail(500, LookupFailed)>>
     ELSE IF found = Null THEN <<Fail(401, UserGone)>>
     ELSE IF ~found.isActive THEN <<Fail(401, AccountDeactivated)>>
     ELSE <<NoRes>>

\* requireRole(...roles)
requireRoleCalls(roles, user) ==
  IF user = Null THEN <<Fail(500, NoUserOnRequest)>>
  ELSE IF user.role \notin roles THEN <<Fail(403, Forbidden)>>
  ELSE <<NoRes>>

\* optionalAuth under catchAsync: without a token it returns next(); with
\* one, the try block calls nothing, its catch swallows what verifyToken or
\* the lookup throws, and the closing next() follows
optionalAuthCalls(hdr, clock, found, rejected) ==
  LET try == <<>>
  IN IF ExtractToken(hdr) = Null THEN <<NoRes>> ELSE try \o <<NoRes>>

\* the routes of this run that mount requireAuth
Gated(route) == route \in AuthRoutes \cup UserRoutes

\* C30: every invocation of requireAuth, requireRole and optionalAuth calls
\* next exactly once, either next() or next(error), whether the store lookup
\* returns or rejects: the request is answered with that error or goes on
\* down the chain, and no request comes back to a lookup it has passed.
C30_HandsOnOnce ==
  [][\A s \in Slots :
       /\ (Arrived(s) /\ Gated(reqs'[s].route)) =>
            LET c == requireAuthCalls(reqs'[s].hdr, now, Null, FALSE)
            IN IF reqs'[s].pc = "done"
               THEN c = <<reqs'[s].res>> /\ c[1] # NoRes
               ELSE reqs'[s].pc = "auth"
       /\ Looked(s) =>
            LET t == Bearer(reqs[s].hdr)
                found == findById(store, t.id)
                c == requireAuthCalls(reqs[s].hdr, t.iat, found, FALSE)
                r == requireRoleCalls(RouteRoles(reqs[s].route), found)
            IN /\ Len(c) = 1
               /\ c[1] # NoRes => reqs'[s].pc = "done" /\ reqs'[s].res = c[1]
               /\ c[1] = NoRes => reqs'[s].user = found
               /\ (c[1] = NoRes /\ reqs[s].route \in RoleGated) =>
                    /\ Len(r) = 1
                    /\ r[1] # NoRes => reqs'[s].pc = "done" /\ reqs'[s].res = r[1]
                    /\ r[1] = NoRes => reqs'[s].res.status \notin {401, 403, 500}
               /\ Len(requireAuthCalls(reqs[s].hdr, t.iat, found, TRUE)) = 1
               /\ requireAuthCalls(reqs[s].hdr, t.iat, found, TRUE)[1] # NoRes
       /\ (Arrived(s) /\ reqs'[s].route = "roleOnly") =>
            /\ requireRoleCalls(reqs'[s].body.roles, reqs'[s].user) = <<reqs'[s].res>>
            /\ reqs'[s].pc = "done"
       /\ (Arrived(s) /\ reqs'[s].route = "public") =>
            /\ optionalAuthCalls(reqs'[s].hdr, now, Null, FALSE) = <<NoRes>>
            /\ reqs'[s].pc = "done" => reqs'[s].res.status = 200
            /\ reqs'[s].pc \in {"done", "optional"}
       /\ (reqs[s].pc = "optional" /\ reqs'[s] # reqs[s]) =>
            LET t == Bearer(reqs[s].hdr)
            IN /\ \A rejected \in BOOLEAN :
                    optionalAuthCalls(reqs[s].hdr, t.iat,
                                      findById(store, t.id), rejected) = <<NoRes>>
               /\ reqs'[s].pc = "done" /\ reqs'[s].res.status = 200
       /\ (reqs'[s].pc \in {"auth", "optional"} /\ reqs'[s] # reqs[s]) => Arrived(s)
  ]_vars

\* a request passed requireAuth with next() and was then failed by
\* requireRole with next(error), each called once
C30_Witness ==
  \E s \in Slots :
    /\ reqs[s].route = "deleteUser" /\ reqs[s].pc = "done"
    /\ reqs[s].user # Null
    /\ requireAuthCalls(reqs[s].hdr, Bearer(reqs[s].hdr).iat,
                        reqs[s].user, FALSE) = <<NoRes>>
    /\ requireRoleCalls(RouteRoles("deleteUser"), reqs[s].user)
         = <<Fail(403, Forbidden)>>
    /\ reqs[s].res = Fail(403, Forbidden)

====
